---------------------------- MODULE Spec2Model ----------------------------
(***************************************************************************)
(* State-machine model of supernova.c: the Star record, update_star and    *)
(* its helpers (spawn_particles, update_particles), draw_star and the      *)
(* driver loop of main.                                                    *)
(*                                                                         *)
(* Numbers.  The C floats are modelled as fixed-point rationals with       *)
(* denominator SCALE = FPS*FPS = 900: a model integer n stands for the     *)
(* real n/900.  With every dt a multiple of 1/FPS, the star's scalar       *)
(* updates (time += dt, velocity += 40*dt, radius -= velocity*dt,          *)
(* radius += 25*dt, explosion_radius += 30*dt / 6*dt) are exact in this    *)
(* representation.  Products that are not exact (particle motion, the      *)
(* random fractions, sin and cos) are rounded down to the grid.  binary32  *)
(* rounding itself is not modelled.                                        *)
(***************************************************************************)
EXTENDS Integers, Sequences, FiniteSets, TLC

VARIABLES s, rng, pc, dt, calls, col, row, pixel

vars == <<s, rng, pc, dt, calls, col, row, pixel>>

(* draw_star's loop counters x and y, and the character it last put.       *)
drawvars == <<col, row, pixel>>

---------------------------------------------------------------------------
(* Program constants (#define lines 75-86).                                *)
WIDTH == 90
HEIGHT == 32
FPS == 30

GIANT == 0
COLLAPSE == 1
BOUNCE == 2
EXPLOSION == 3
NEBULA == 4

(* The five stages (lines 80-84).                                          *)
Stages == {GIANT, COLLAPSE, BOUNCE, EXPLOSION, NEBULA}

(* Size of the particle array.  The program uses 450; the model keeps the  *)
(* array small.                                                            *)
MAX_PARTICLES == 2

(* stdlib's RAND_MAX, at the smallest value the C standard allows.         *)
RAND_MAX == 32767

---------------------------------------------------------------------------
(* Fixed-point arithmetic.                                                 *)
SCALE == FPS * FPS

Fx(n) == n * SCALE

(* a*b of two fixed-point numbers, rounded down to the grid.               *)
MulFx(a, b) == (a * b) \div SCALE

(* math.h M_PI, fixed-point (355/113).                                     *)
M_PI == (355 * SCALE) \div 113

(* sin on [0, pi] by Bhaskara's rational approximation                     *)
(*   sin x ~ 16 x (pi - x) / (5 pi^2 - 4 x (pi - x)),  |error| < 0.002,    *)
(* numerator and denominator both divided by 16 to stay in 32 bits.        *)
SinHalf(x) ==
    LET q == (x * (M_PI - x)) \div 16
        D == (5 * M_PI * M_PI) \div 16
    IN  (16 * SCALE * q) \div (D - 4 * q)

(* math.h sin for a fixed-point angle x >= 0.                              *)
Sin(x) ==
    LET y == x % (2 * M_PI)
    IN  IF y <= M_PI THEN SinHalf(y) ELSE 0 - SinHalf(y - M_PI)

(* math.h cos for a fixed-point angle x >= 0.                              *)
Cos(x) == Sin(x + M_PI \div 2)

---------------------------------------------------------------------------
(* The C library generator.  srand(time(NULL)) picks the generator state;  *)
(* rand() returns the value at the current position of a fixed cycle and   *)
(* moves one position on.  The cycle holds both ends of rand()'s range.    *)
RandSeq == <<0, RAND_MAX, 16384, 1, RAND_MAX - 1>>

Seeds == 0 .. (Len(RandSeq) - 1)

(* Value returned by the k-th rand() call (k = 0, 1, ...) from state g.    *)
Rand(g, k) == RandSeq[((g + k) % Len(RandSeq)) + 1]

(* Generator state after n rand() calls.                                   *)
RandAdvance(g, n) == (g + n) % Len(RandSeq)

---------------------------------------------------------------------------
(* Particle and Star (typedefs lines 88-106).  The field density is never  *)
(* written nor read and is left out.                                       *)
Particle(x, y, vx, vy, life) ==
    [x |-> x, y |-> y, vx |-> vx, vy |-> vy, life |-> life]

(* spawn_particles loop body with the lifetime spread 2.5 in place of 1.5. *)
SpawnOne_LongLife(g, i) ==
    LET k == 3 * (i - 1)
        angle == (Rand(g, k) * 2 * M_PI) \div RAND_MAX
        speed == 10 + (Rand(g, k + 1) % 40)
        cx == (WIDTH * SCALE) \div 2
        cy == (HEIGHT * SCALE) \div 2
    IN  Particle(cx, cy,
                 Cos(angle) * speed,
                 (Sin(angle) * speed * 55) \div 100,
                 (5 * SCALE) \div 2
                   + (Rand(g, k + 2) * ((5 * SCALE) \div 2)) \div RAND_MAX)

(* spawn_particles, body of the loop for particle i (1-based) when the     *)
(* generator is in state g at the call: three rand() calls per particle,   *)
(* for the angle, the speed and the lifetime, in that order.               *)
SpawnOne(g, i) ==
    LET k == 3 * (i - 1)
        angle == (Rand(g, k) * 2 * M_PI) \div RAND_MAX
        speed == 10 + (Rand(g, k + 1) % 40)
        cx == (WIDTH * SCALE) \div 2
        cy == (HEIGHT * SCALE) \div 2
    IN  Particle(cx, cy,
                 Cos(angle) * speed,
                 (Sin(angle) * speed * 55) \div 100,
                 (5 * SCALE) \div 2
                   + (Rand(g, k + 2) * ((3 * SCALE) \div 2)) \div RAND_MAX)

(* spawn_particles whose loop stops one entry short (i < MAX_PARTICLES-1). *)
spawn_particles_short(m) ==
    [m EXCEPT !.s.particle_count = MAX_PARTICLES,
              !.s.particles = [i \in 1 .. MAX_PARTICLES |->
                                  IF i < MAX_PARTICLES
                                  THEN SpawnOne(m.g, i)
                                  ELSE m.s.particles[i]],
              !.g = RandAdvance(m.g, 3 * (MAX_PARTICLES - 1)),
              !.calls = Append(m.calls, "spawn_particles")]

(* spawn_particles (lines 119-134) on the memory m = [s, g, calls].        *)
spawn_particles(m) ==
    [m EXCEPT !.s.particle_count = MAX_PARTICLES,
              !.s.particles = [i \in 1 .. MAX_PARTICLES |-> SpawnOne(m.g, i)],
              !.g = RandAdvance(m.g, 3 * MAX_PARTICLES),
              !.calls = Append(m.calls, "spawn_particles")]

(* update_particles loop body in which only the motion is skipped for a    *)
(* dead particle and the lifetime countdown goes on.                       *)
UpdateOne_Countdown(p, d) ==
    IF p.life <= 0 THEN [p EXCEPT !.life = p.life - d]
    ELSE [p EXCEPT !.x = p.x + MulFx(p.vx, d),
                   !.y = p.y + MulFx(p.vy, d),
                   !.life = p.life - d]

(* update_particles, body of the loop for one particle (lines 218-222).    *)
UpdateOne(p, d) ==
    IF p.life <= 0 THEN p
    ELSE [p EXCEPT !.x = p.x + MulFx(p.vx, d),
                   !.y = p.y + MulFx(p.vy, d),
                   !.life = p.life - d]

(* update_particles (lines 216-224): only the first particle_count entries *)
(* are visited.                                                            *)
update_particles(m, d) ==
    [m EXCEPT !.s.particles =
                  [i \in 1 .. MAX_PARTICLES |->
                      IF i <= m.s.particle_count
                      THEN UpdateOne(m.s.particles[i], d)
                      ELSE m.s.particles[i]],
              !.calls = Append(m.calls, "update_particles")]

---------------------------------------------------------------------------
(* update_star (lines 229-292), one branch per stage.  Each branch takes   *)
(* the memory after time += dt.                                            *)

(* GIANT branch that also calls update_particles.                          *)
GiantStep_MovesParticles(m, d) ==
    LET r == update_particles(
                 [m EXCEPT !.s.radius = Fx(9) + (Sin(m.s.time * 3) * 3) \div 2],
                 d)
    IN  IF r.s.time > Fx(5)
        THEN [r EXCEPT !.s.state = COLLAPSE, !.s.time = 0, !.s.velocity = 0]
        ELSE r

(* GIANT branch (lines 233-242).                                           *)
GiantStep(m, d) ==
    LET r == [m EXCEPT !.s.radius = Fx(9) + (Sin(m.s.time * 3) * 3) \div 2]
    IN  IF r.s.time > Fx(5)
        THEN [r EXCEPT !.s.state = COLLAPSE, !.s.time = 0, !.s.velocity = 0]
        ELSE r

(* COLLAPSE branch with the two updates in the other order: radius moves   *)
(* by the velocity of the tick before.                                     *)
CollapseStep_StaleVelocity(m, d) ==
    LET r == [m EXCEPT !.s.radius = m.s.radius - MulFx(m.s.velocity, d),
                       !.s.velocity = m.s.velocity + 40 * d]
    IN  IF r.s.radius < Fx(3)
        THEN [r EXCEPT !.s.state = BOUNCE, !.s.time = 0,
                       !.s.core_radius = Fx(2)]
        ELSE r

(* COLLAPSE branch (lines 245-255).                                        *)
CollapseStep(m, d) ==
    LET v == m.s.velocity + 40 * d
        r == [m EXCEPT !.s.velocity = v,
                       !.s.radius = m.s.radius - MulFx(v, d)]
    IN  IF r.s.radius < Fx(3)
        THEN [r EXCEPT !.s.state = BOUNCE, !.s.time = 0,
                       !.s.core_radius = Fx(2)]
        ELSE r

(* BOUNCE branch whose transition forgets time = 0.                        *)
BounceStep_NoTimeReset(m, d) ==
    LET r == [m EXCEPT !.s.radius = m.s.radius + 25 * d]
    IN  IF r.s.time > (8 * SCALE) \div 10
        THEN spawn_particles([r EXCEPT !.s.state = EXPLOSION,
                                       !.s.explosion_radius = Fx(3)])
        ELSE r

(* BOUNCE branch (lines 258-267).                                          *)
BounceStep(m, d) ==
    LET r == [m EXCEPT !.s.radius = m.s.radius + 25 * d]
    IN  IF r.s.time > (8 * SCALE) \div 10
        THEN spawn_particles([r EXCEPT !.s.state = EXPLOSION, !.s.time = 0,
                                       !.s.explosion_radius = Fx(3)])
        ELSE r

(* EXPLOSION branch (lines 270-278).                                       *)
ExplosionStep(m, d) ==
    LET r == update_particles(
                 [m EXCEPT !.s.explosion_radius = m.s.explosion_radius + 30 * d],
                 d)
    IN  IF r.s.explosion_radius > Fx(32)
        THEN [r EXCEPT !.s.state = NEBULA, !.s.time = 0]
        ELSE r

(* NEBULA branch whose restart forgets radius = 9.                         *)
NebulaStep_NoRadiusReset(m, d) ==
    LET r == update_particles(
                 [m EXCEPT !.s.explosion_radius = m.s.explosion_radius + 6 * d],
                 d)
    IN  IF r.s.explosion_radius > Fx(42)
        THEN [r EXCEPT !.s.state = GIANT, !.s.time = 0]
        ELSE r

(* NEBULA branch whose restart also clears the remnant (core_radius = 0).  *)
NebulaStep_ClearCore(m, d) ==
    LET r == update_particles(
                 [m EXCEPT !.s.explosion_radius = m.s.explosion_radius + 6 * d],
                 d)
    IN  IF r.s.explosion_radius > Fx(42)
        THEN [r EXCEPT !.s.state = GIANT, !.s.time = 0, !.s.radius = Fx(9),
                       !.s.core_radius = 0]
        ELSE r

(* NEBULA branch whose restart also sets velocity = 0.                     *)
NebulaStep_ResetVelocity(m, d) ==
    LET r == update_particles(
                 [m EXCEPT !.s.explosion_radius = m.s.explosion_radius + 6 * d],
                 d)
    IN  IF r.s.explosion_radius > Fx(42)
        THEN [r EXCEPT !.s.state = GIANT, !.s.time = 0, !.s.radius = Fx(9),
                       !.s.velocity = 0]
        ELSE r

(* NEBULA branch that tests the restart threshold before it grows the     *)
(* cloud.                                                                  *)
NebulaStep_CheckFirst(m, d) ==
    LET r == update_particles(
                 [m EXCEPT !.s.explosion_radius = m.s.explosion_radius + 6 * d],
                 d)
    IN  IF m.s.explosion_radius > Fx(42)
        THEN [r EXCEPT !.s.state = GIANT, !.s.time = 0, !.s.radius = Fx(9)]
        ELSE r

(* NEBULA branch (lines 281-291).                                          *)
NebulaStep(m, d) ==
    LET r == update_particles(
                 [m EXCEPT !.s.explosion_radius = m.s.explosion_radius + 6 * d],
                 d)
    IN  IF r.s.explosion_radius > Fx(42)
        THEN [r EXCEPT !.s.state = GIANT, !.s.time = 0, !.s.radius = Fx(9)]
        ELSE r

(* update_star with the branches as independent ifs (no else): a call that *)
(* changes the stage goes on into the next stage's branch.                 *)
update_star_fallthrough(m, d) ==
    LET t  == [m EXCEPT !.s.time = m.s.time + d, !.calls = <<>>]
        a  == IF t.s.state = GIANT THEN GiantStep(t, d) ELSE t
        b  == IF a.s.state = COLLAPSE THEN CollapseStep(a, d) ELSE a
        c  == IF b.s.state = BOUNCE THEN BounceStep(b, d) ELSE b
        e  == IF c.s.state = EXPLOSION THEN ExplosionStep(c, d) ELSE c
    IN  IF e.s.state = NEBULA THEN NebulaStep(e, d) ELSE e

(* update_star(&s, dt) on the memory m: time += dt, then the branch of the *)
(* stage that holds at the call.                                           *)
update_star(m, d) ==
    LET t == [m EXCEPT !.s.time = m.s.time + d, !.calls = <<>>]
    IN  CASE m.s.state = GIANT     -> GiantStep(t, d)
          [] m.s.state = COLLAPSE  -> CollapseStep(t, d)
          [] m.s.state = BOUNCE    -> BounceStep(t, d)
          [] m.s.state = EXPLOSION -> ExplosionStep(t, d)
          [] m.s.state = NEBULA    -> NebulaStep(t, d)
          [] OTHER                 -> t

---------------------------------------------------------------------------
(* draw_star (lines 151-211).                                              *)

(* d <= r for the cell (x, y), d the aspect-corrected distance from the    *)
(* grid centre: dx = x - WIDTH/2, dy = (y - HEIGHT/2) * 1.5,               *)
(* d = sqrt(dx*dx + dy*dy).  Compared on squares, times 4:                 *)
(* 4 d^2 = 4 dx^2 + 9 (y - cy)^2 <= 4 r^2, with r in fixed point.          *)
(* The largest d on the grid is 51 (cell (0,0)), so r >= 51 covers every   *)
(* cell, and below that bound both squares fit in 32 bits.                 *)
Dist2x4(x, y) ==
    LET dx == 2 * x - WIDTH
        dy == 2 * y - HEIGHT
    IN  (4 * dx * dx + 9 * dy * dy) \div 4

Within(x, y, r) ==
    IF r < 0 THEN FALSE
    ELSE IF r >= Fx(51) THEN TRUE
    ELSE Dist2x4(x, y) * ((SCALE * SCALE) \div 4) <= r * r

Cells == (0 .. (WIDTH - 1)) \X (0 .. (HEIGHT - 1))

(* Number of rand() calls one draw_star makes: in NEBULA, one per cell     *)
(* with d <= explosion_radius (line 190; && evaluates rand() only then).   *)
DrawRandCalls(st) ==
    IF st.state = NEBULA
    THEN Cardinality({c \in Cells : Within(c[1], c[2], st.explosion_radius)})
    ELSE 0

(* d >= r for the cell (x, y), compared the same way.                      *)
AtLeast(x, y, r) ==
    IF r <= 0 THEN TRUE
    ELSE IF r > Fx(51) THEN FALSE
    ELSE Dist2x4(x, y) * ((SCALE * SCALE) \div 4) >= r * r

(* (int) of a float: truncation toward zero (lines 200-201).               *)
Trunc(v) == IF v >= 0 THEN v \div SCALE ELSE 0 - ((0 - v) \div SCALE)

(* The stage's layer for the cell (x, y) (lines 165-192), g the generator  *)
(* state when the cell is reached.                                         *)
BasePixel(st, g, x, y) ==
    CASE st.state = GIANT ->
            IF Within(x, y, st.radius) THEN "#" ELSE " "
      [] st.state = COLLAPSE ->
            IF Within(x, y, st.radius) THEN "@" ELSE " "
      [] st.state = BOUNCE ->
            IF Within(x, y, st.radius)
               /\ AtLeast(x, y, st.radius - (3 * SCALE) \div 2)
            THEN "*" ELSE " "
      [] st.state = EXPLOSION ->
            IF Within(x, y, st.explosion_radius)
               /\ AtLeast(x, y, st.explosion_radius - (16 * SCALE) \div 10)
            THEN "*" ELSE " "
      [] st.state = NEBULA ->
            IF Within(x, y, st.explosion_radius) /\ Rand(g, 0) % 12 = 0
            THEN "." ELSE " "
      [] OTHER -> " "

(* rand() calls made for the cell (x, y): one in NEBULA when                *)
(* d <= explosion_radius (line 190).                                       *)
CellRandCalls(st, x, y) ==
    IF st.state = NEBULA /\ Within(x, y, st.explosion_radius) THEN 1 ELSE 0

(* The remnant's layer (lines 195-196), over the pixel pix so far.         *)
CoreLayer(st, x, y, pix) ==
    IF Within(x, y, st.core_radius) THEN "O" ELSE pix

(* The particle loop (lines 199-205) from particle i on, over the pixel    *)
(* pix so far.                                                             *)
RECURSIVE ParticleLayer(_, _, _, _, _)
ParticleLayer(st, x, y, i, pix) ==
    IF i > st.particle_count THEN pix
    ELSE ParticleLayer(st, x, y, i + 1,
             IF /\ Trunc(st.particles[i].x) = x
                /\ Trunc(st.particles[i].y) = y
                /\ st.particles[i].life > 0
             THEN "+" ELSE pix)

(* draw_star with the remnant's layer applied after the particle loop.     *)
CellPixel_CoreOnTop(st, g, x, y) ==
    CoreLayer(st, x, y, ParticleLayer(st, x, y, 1, BasePixel(st, g, x, y)))

(* The character draw_star puts for the cell (x, y) (lines 161-207).       *)
CellPixel(st, g, x, y) ==
    ParticleLayer(st, x, y, 1, CoreLayer(st, x, y, BasePixel(st, g, x, y)))

---------------------------------------------------------------------------
(* main (lines 294-315).                                                   *)

(* Contents of the uninitialized particles array of the local Star s:      *)
(* indeterminate.                                                          *)
Indeterminate == {Particle(0, 0, 0, 0, 0), Particle(Fx(1), Fx(1), 1, 1, Fx(1))}

(* float dt = 1.0 / FPS (line 306).                                        *)
DT == SCALE \div FPS

(* State on entry to the while loop (lines 295-306).                       *)
Init ==
    /\ \E p \in Indeterminate :
          s = [radius |-> Fx(9), core_radius |-> 0, explosion_radius |-> 0,
               velocity |-> 0, time |-> 0, state |-> GIANT,
               particles |-> [i \in 1 .. MAX_PARTICLES |-> p],
               particle_count |-> 0]
    /\ rng \in Seeds
    /\ pc = "update"
    /\ dt = DT
    /\ calls = <<>>
    /\ col = 0
    /\ row = 0
    /\ pixel = ""

(* One call update_star(&s, d).                                            *)
Advance(d) ==
    LET r == update_star([s |-> s, g |-> rng, calls |-> <<>>], d)
    IN  /\ s' = r.s
        /\ rng' = r.g
        /\ calls' = r.calls
        /\ dt' = d

(* Line 309.                                                               *)
Update ==
    /\ pc = "update"
    /\ Advance(dt)
    /\ pc' = "draw"
    /\ UNCHANGED drawvars

(* Line 310: the whole call draw_star(&s).  It leaves its loops with       *)
(* y = HEIGHT after the last newline.                                      *)
Draw ==
    /\ pc = "draw"
    /\ rng' = RandAdvance(rng, DrawRandCalls(s))
    /\ pc' = "sleep"
    /\ col' = 0
    /\ row' = HEIGHT
    /\ pixel' = "\n"
    /\ UNCHANGED <<s, dt, calls>>

(* A loop body that goes back to draw_star after usleep, with no           *)
(* update_star in between.                                                 *)
Sleep_ToDraw ==
    /\ pc = "sleep"
    /\ pc' = "draw"
    /\ UNCHANGED <<s, rng, dt, calls, col, row, pixel>>

(* Line 311.                                                               *)
Sleep ==
    /\ pc = "sleep"
    /\ pc' = "update"
    /\ UNCHANGED <<s, rng, dt, calls, col, row, pixel>>

Next == Update \/ Draw \/ Sleep

Spec == Init /\ [][Next]_vars

(* The driver never blocks: usleep returns and both calls run to           *)
(* completion, so the loop keeps taking steps.                             *)
LiveSpec == Spec /\ WF_vars(Next)

---------------------------------------------------------------------------
(* update_star as an operation of its own: any caller, any sequence of     *)
(* calls, each with a dt >= 0 of the caller's choice.                      *)

(* 0, 1/3 s, 1 s and 2 s.                                                  *)
DtSet == {0, SCALE \div 3, SCALE, 2 * SCALE}

Call(d) ==
    /\ Advance(d)
    /\ UNCHANGED <<pc, col, row, pixel>>

NextAdv == \E d \in DtSet : Call(d)

SpecAdv == Init /\ [][NextAdv]_vars

---------------------------------------------------------------------------
(* The particle subsystem as operations of their own: spawn_particles and  *)
(* update_particles called directly on the Star, in any order, each        *)
(* update with a dt > 0 of the caller's choice.                            *)

(* 1/60 s and 1 s.                                                         *)
DtSetPart == {SCALE \div 60, SCALE}

(* spawn_particles(&s).                                                    *)
SpawnCall ==
    LET r == spawn_particles([s |-> s, g |-> rng, calls |-> <<>>])
    IN  /\ s' = r.s
        /\ rng' = r.g
        /\ calls' = r.calls
        /\ UNCHANGED <<pc, dt, col, row, pixel>>

(* update_particles(&s, d).                                                *)
ParticlesCall(d) ==
    LET r == update_particles([s |-> s, g |-> rng, calls |-> <<>>], d)
    IN  /\ s' = r.s
        /\ rng' = r.g
        /\ calls' = r.calls
        /\ dt' = d
        /\ UNCHANGED <<pc, col, row, pixel>>

NextPart == SpawnCall \/ \E d \in DtSetPart : ParticlesCall(d)

SpecPart == Init /\ [][NextPart]_vars

---------------------------------------------------------------------------
(* draw_star as an operation of its own, one loop iteration per step, on   *)
(* Star values a caller can construct.                                     *)

(* Particle i of a constructed Star: the odd entries at (47.5, 16.2), in   *)
(* the cell two columns right of the centre; the even ones at              *)
(* (-0.5, 16.5), left of the grid.  cfg 1: alive; cfg 2: dead.             *)
DrawParticle(i, cfg) ==
    IF i % 2 = 1
    THEN Particle(47 * SCALE + SCALE \div 2, 16 * SCALE + SCALE \div 5,
                  Fx(10), 0, IF cfg = 1 THEN Fx(1) ELSE 0)
    ELSE Particle(0 - SCALE \div 2, 16 * SCALE + SCALE \div 2,
                  0 - Fx(10), 0, IF cfg = 1 THEN SCALE \div 2 ELSE 0 - 1)

(* The Stars drawn: every stage, with and without a remnant, with no       *)
(* particles, live ones or dead ones; radius 9, explosion_radius 3.        *)
DrawInputs ==
    {[radius |-> Fx(9), core_radius |-> core, explosion_radius |-> Fx(3),
      velocity |-> 0, time |-> 0, state |-> st,
      particles |-> [i \in 1 .. MAX_PARTICLES |-> DrawParticle(i, cfg)],
      particle_count |-> IF cfg = 0 THEN 0 ELSE MAX_PARTICLES] :
        st \in Stages, core \in {0, Fx(2)}, cfg \in 0 .. 2}

(* On entry to draw_star, after clear() (lines 152-157).                   *)
InitDraw ==
    /\ s \in DrawInputs
    /\ rng \in Seeds
    /\ pc = "draw"
    /\ dt = DT
    /\ calls = <<>>
    /\ col = 0
    /\ row = 0
    /\ pixel = ""

(* An inner loop that runs while x <= WIDTH.                               *)
PutCell_OffByOne ==
    /\ pc = "draw"
    /\ row < HEIGHT
    /\ col <= WIDTH
    /\ pixel' = CellPixel(s, rng, col, row)
    /\ rng' = RandAdvance(rng, CellRandCalls(s, col, row))
    /\ col' = col + 1
    /\ UNCHANGED <<s, pc, dt, calls, row>>

(* One iteration of the inner loop (lines 158-208): putchar(pixel).        *)
PutCell ==
    /\ pc = "draw"
    /\ row < HEIGHT
    /\ col < WIDTH
    /\ pixel' = CellPixel(s, rng, col, row)
    /\ rng' = RandAdvance(rng, CellRandCalls(s, col, row))
    /\ col' = col + 1
    /\ UNCHANGED <<s, pc, dt, calls, row>>

(* End of a row (line 209): putchar('\n').                                 *)
PutNewline ==
    /\ pc = "draw"
    /\ row < HEIGHT
    /\ col >= WIDTH
    /\ pixel' = "\n"
    /\ col' = 0
    /\ row' = row + 1
    /\ UNCHANGED <<s, rng, pc, dt, calls>>

(* draw_star returns (line 211).                                           *)
DrawReturn ==
    /\ pc = "draw"
    /\ row >= HEIGHT
    /\ pc' = "sleep"
    /\ UNCHANGED <<s, rng, dt, calls, col, row, pixel>>

NextDraw == PutCell \/ PutNewline \/ DrawReturn

SpecDraw == InitDraw /\ [][NextDraw]_vars

---------------------------------------------------------------------------
(* Properties.                                                             *)

(* C1: for any sequence of update_star calls from the initial state, every *)
(* change of stage goes from a stage to its single successor in the cycle  *)
(* Giant -> Collapse -> Bounce -> Explosion -> Nebula -> Giant; no skip,   *)
(* reversal or jump is reachable.                                          *)
C1_StageOrder ==
    [][s'.state # s.state => s'.state = (s.state + 1) % 5]_vars

(* C1: a call with dt = 2 s has just closed a whole cycle, Nebula -> Giant. *)
C1_Witness ==
    /\ s.state = GIANT
    /\ s.time = 0
    /\ s.core_radius = Fx(2)
    /\ s.explosion_radius > Fx(42)
    /\ dt = 2 * SCALE

(* C2: under the driver (dt = 1/30 on every call) no stage is held         *)
(* forever, the machine is in Giant infinitely often, and the call that    *)
(* moves Nebula -> Giant leaves radius = 9 and time = 0.                   *)
C2_CycleClosure ==
    /\ []<>(s.state = GIANT)
    /\ \A st \in Stages : []<>(s.state # st)
    /\ [][(s.state = NEBULA /\ s'.state = GIANT)
            => (s'.radius = Fx(9) /\ s'.time = 0)]_vars

(* C2: the driver's Nebula -> Giant call has just returned.                *)
C2_Witness ==
    /\ pc = "draw"
    /\ dt = DT
    /\ s.state = GIANT
    /\ s.time = 0
    /\ s.radius = Fx(9)
    /\ s.particle_count = MAX_PARTICLES

(* C3: for every update_star call with dt >= 0, if the call changes the    *)
(* stage then time is exactly 0 afterwards, and if it does not then time   *)
(* afterwards is the previous time plus dt (so time never decreases        *)
(* within a stage).                                                        *)
C3_TimeResetOrAdvance ==
    [][/\ dt' >= 0
       /\ IF s'.state # s.state
          THEN s'.time = 0
          ELSE s'.time = s.time + dt' /\ s'.time >= s.time]_vars

(* C3: time has accumulated over calls within Bounce, the last one with    *)
(* dt = 1/3 s; the next call with dt > 0 changes the stage.                *)
C3_Witness ==
    /\ s.state = BOUNCE
    /\ s.time = 2 * (SCALE \div 3)
    /\ dt = SCALE \div 3

(* C4: core_radius is cleared to 0 when the cycle restarts: in every       *)
(* reachable state whose stage is Giant or Collapse, in the first cycle    *)
(* and in every later one, core_radius = 0.                                *)
C4_CoreClearedAtRestart ==
    s.state \in {GIANT, COLLAPSE} => s.core_radius = 0

(* C5: explosion_radius is 0 until Explosion: in every reachable state     *)
(* whose stage is Giant, Collapse or Bounce, explosion_radius = 0, and the *)
(* Bounce -> Explosion call sets it to 3.                                  *)
C5_ExplosionRadiusZeroUntilExplosion ==
    /\ s.state \in {GIANT, COLLAPSE, BOUNCE} => s.explosion_radius = 0
    /\ (s.state = EXPLOSION /\ s.time = 0) => s.explosion_radius = Fx(3)

(* C6: the Nebula -> Giant restart leaves core_radius unchanged: once      *)
(* core_radius is 2 (set at the first Collapse -> Bounce) it is 2 in every *)
(* later state, in every stage of every later cycle; before that it is 0.  *)
C6_RemnantPersists ==
    /\ s.core_radius = 0
    /\ [][/\ s.core_radius = Fx(2) => s'.core_radius = Fx(2)
          /\ (s.state = NEBULA /\ s'.state = GIANT)
                => s'.core_radius = s.core_radius
          /\ s'.core_radius \in {0, Fx(2)}
          /\ (s.state = COLLAPSE /\ s'.state = BOUNCE)
                => s'.core_radius = Fx(2)]_vars

(* C6: a later cycle's Giant, after the restart, with the remnant of the   *)
(* cycle before.                                                           *)
C6_Witness ==
    /\ s.state = GIANT
    /\ s.time > 0
    /\ s.core_radius = Fx(2)
    /\ pc = "sleep"

(* Whether a sequence of called functions holds the name f.                *)
Called(cs, f) == \E k \in 1 .. Len(cs) : cs[k] = f

(* Every entry of the particle array of st is freshly spawned: at the grid *)
(* centre with a lifetime of at least 2.5.                                 *)
AllFresh(st) ==
    \A i \in 1 .. MAX_PARTICLES :
        /\ st.particles[i].x = (WIDTH * SCALE) \div 2
        /\ st.particles[i].y = (HEIGHT * SCALE) \div 2
        /\ st.particles[i].life >= (5 * SCALE) \div 2

(* C7: spawn_particles runs in an update_star call if and only if that     *)
(* call performs Bounce -> Explosion; it overwrites all MAX_PARTICLES      *)
(* entries; and particle_count is 0 before the first Explosion and         *)
(* MAX_PARTICLES ever after.                                               *)
C7_SpawnOnlyAtExplosionInFull ==
    /\ s.particle_count = 0
    /\ [][/\ Called(calls', "spawn_particles")
                <=> (s.state = BOUNCE /\ s'.state = EXPLOSION)
          /\ Called(calls', "spawn_particles")
                => (AllFresh(s') /\ s'.particle_count = MAX_PARTICLES)
          /\ ~Called(calls', "spawn_particles")
                => s'.particle_count = s.particle_count
          /\ s'.particle_count = 0 <=> s'.explosion_radius = 0
          /\ s'.particle_count \in {0, MAX_PARTICLES}]_vars

(* C7: the Bounce -> Explosion call has just run spawn_particles, after    *)
(* a call with dt = 1/3 s.                                                 *)
C7_Witness ==
    /\ Called(calls, "spawn_particles")
    /\ s.state = EXPLOSION
    /\ s.time = 0
    /\ s.particle_count = MAX_PARTICLES
    /\ AllFresh(s)
    /\ dt = SCALE \div 3

(* Every particle of st sits at the grid centre (WIDTH/2, HEIGHT/2).       *)
AllAtCentre(st) ==
    \A i \in 1 .. MAX_PARTICLES :
        /\ st.particles[i].x = (WIDTH * SCALE) \div 2
        /\ st.particles[i].y = (HEIGHT * SCALE) \div 2

(* C8 as stated: immediately after spawn_particles, for every value rand() *)
(* can return (0 .. RAND_MAX inclusive), every particle is at the grid     *)
(* centre and has a lifetime L with 2.5 <= L < 4.0.                        *)
C8_LifetimeHalfOpen ==
    Called(calls, "spawn_particles") =>
        /\ AllAtCentre(s)
        /\ \A i \in 1 .. MAX_PARTICLES :
              /\ (5 * SCALE) \div 2 <= s.particles[i].life
              /\ s.particles[i].life < Fx(4)

(* C8 amended: immediately after spawn_particles every particle is at the  *)
(* grid centre and has a lifetime L with 2.5 <= L <= 4.0; L = 4.0 exactly  *)
(* when rand() returns RAND_MAX.                                           *)
C8_LifetimeClosed ==
    Called(calls, "spawn_particles") =>
        /\ AllAtCentre(s)
        /\ s.particle_count = MAX_PARTICLES
        /\ \A i \in 1 .. MAX_PARTICLES :
              /\ (5 * SCALE) \div 2 <= s.particles[i].life
              /\ s.particles[i].life <= Fx(4)

(* C8: spawn_particles has just run and rand() returned RAND_MAX for a     *)
(* lifetime, and 0 for another.                                            *)
C8_Witness ==
    /\ Called(calls, "spawn_particles")
    /\ \E i \in 1 .. MAX_PARTICLES : s.particles[i].life = Fx(4)
    /\ \E i \in 1 .. MAX_PARTICLES : s.particles[i].life = (5 * SCALE) \div 2

(* C9 as stated: once a particle's lifetime is <= 0, an update_particles   *)
(* tick leaves its x and y unchanged but still decrements its lifetime by  *)
(* dt, so the lifetime goes on falling.                                    *)
C9_DeadCountdownContinues ==
    [][Called(calls', "update_particles") =>
          \A i \in 1 .. s.particle_count :
              s.particles[i].life <= 0 =>
                  /\ s'.particles[i].x = s.particles[i].x
                  /\ s'.particles[i].y = s.particles[i].y
                  /\ s'.particles[i].life = s.particles[i].life - dt']_vars

(* C9 amended: once a particle's lifetime is <= 0, update_particles skips  *)
(* it entirely: x, y, the velocity and the lifetime are all unchanged by   *)
(* every later tick until the next spawn.  The lifetime stays at the value *)
(* it had when it first became <= 0, which is above -dt of that tick.      *)
C9_DeadParticleFrozen ==
    [][Called(calls', "update_particles") =>
          \A i \in 1 .. s.particle_count :
              IF s.particles[i].life <= 0
              THEN s'.particles[i] = s.particles[i]
              ELSE /\ s'.particles[i].life = s.particles[i].life - dt'
                   /\ s'.particles[i].life > 0 - dt']_vars

(* C9: the last update_particles tick, with dt > 0, found a particle       *)
(* already dead (its lifetime is <= -dt, so it was <= 0 before the tick).  *)
C9_Witness ==
    /\ Called(calls, "update_particles")
    /\ dt > 0
    /\ \E i \in 1 .. s.particle_count :
          /\ s.particles[i].life + dt <= 0
          /\ s.particles[i].x # (WIDTH * SCALE) \div 2

LiveAt(st, x, y) ==
    \E i \in 1 .. st.particle_count :
        /\ st.particles[i].life > 0
        /\ Trunc(st.particles[i].x) = x
        /\ Trunc(st.particles[i].y) = y

(* C11: render priority.  The symbol draw_star puts for a cell is '+' if   *)
(* a live particle's truncated position is the cell; otherwise 'O' if the  *)
(* cell's distance from the centre is <= core_radius; otherwise the        *)
(* stage's base symbol if its geometric test holds; otherwise ' '.         *)
C11_RenderPriority ==
    [][(pc = "draw" /\ row < HEIGHT /\ col < WIDTH /\ col' = col + 1) =>
          pixel' = IF LiveAt(s, col, row) THEN "+"
                   ELSE IF Within(col, row, s.core_radius) THEN "O"
                   ELSE BasePixel(s, rng, col, row)]_vars

(* The cell (47, 16) of an Explosion with explosion_radius 3 and remnant   *)
(* radius 2 holding a live particle has just been put: the core disk, the  *)
(* explosion band and the particle overlap there, and '+' was put.         *)
C11_Witness ==
    /\ pc = "draw"
    /\ s.state = EXPLOSION
    /\ row = 16
    /\ col = 48
    /\ LiveAt(s, 47, 16)
    /\ Within(47, 16, s.core_radius)
    /\ BasePixel(s, rng, 47, 16) = "*"
    /\ pixel = "+"


(* C12: main alternates update_star and draw_star, starting with           *)
(* update_star.  A draw_star call begins only as the step after an         *)
(* update_star call and an update_star call only at the start or after     *)
(* the usleep that follows a draw_star; the Star changes only in           *)
(* update_star steps; the Star that draw_star is given is never the one    *)
(* main initialised (GIANT, time 0, no particles); and the loop always     *)
(* has a next step and comes back to both calls forever.                   *)
C12_StrictAlternation ==
    /\ [](pc = "draw" =>
             ~(s.state = GIANT /\ s.time = 0 /\ s.particle_count = 0))
    /\ [][/\ pc' = "draw" <=> pc = "update"
          /\ pc' = "sleep" <=> pc = "draw"
          /\ pc' = "update" <=> pc = "sleep"
          /\ s' # s => pc = "update"]_vars
    /\ [](ENABLED Next)
    /\ []<>(pc = "update")
    /\ []<>(pc = "draw")

(* The first frame has been drawn, after exactly one update_star call.     *)
C12_Witness ==
    /\ pc = "sleep"
    /\ row = HEIGHT
    /\ s.state = GIANT
    /\ s.time = DT
    /\ s.particle_count = 0


(* The characters draw_star can put for a cell (lines 165-204).            *)
Symbols == {"#", "@", "*", "+", ".", "O", " "}

(* C13: rendering is total.  draw_star puts HEIGHT rows of WIDTH symbols   *)
(* each: a newline exactly after the WIDTH-th symbol of a row, the return  *)
(* exactly after the HEIGHT-th newline.  Every symbol is one of the table  *)
(* '#', '@', '*', '+', '.', 'O', ' ', and it is ' ' when no layer          *)
(* matches.  While it runs it always has a next step, and no step changes  *)
(* a field of the Star.                                                    *)
C13_RenderingTotal ==
    /\ [](/\ col \in 0 .. WIDTH
          /\ row \in 0 .. HEIGHT
          /\ pc = "sleep" => (row = HEIGHT /\ col = 0 /\ pixel = "\n")
          /\ pc = "draw" => ENABLED NextDraw)
    /\ [][/\ s' = s
          /\ pc' = "sleep" <=> (pc = "draw" /\ row = HEIGHT)
          /\ (pc' = "draw" /\ col < WIDTH) =>
                /\ col' = col + 1
                /\ row' = row
                /\ pixel' \in Symbols
                /\ (/\ ~LiveAt(s, col, row)
                    /\ ~Within(col, row, s.core_radius)
                    /\ BasePixel(s, rng, col, row) = " ") => pixel' = " "
          /\ (pc' = "draw" /\ col = WIDTH) =>
                (pixel' = "\n" /\ col' = 0 /\ row' = row + 1)]_vars

(* draw_star has returned after the last newline, having drawn a Nebula    *)
(* with a remnant and live particles.                                      *)
C13_Witness ==
    /\ pc = "sleep"
    /\ row = HEIGHT
    /\ col = 0
    /\ pixel = "\n"
    /\ s.state = NEBULA
    /\ s.core_radius > 0
    /\ LiveAt(s, 47, 16)


(* C15: particles are advanced only during Explosion and Nebula.  A call   *)
(* of update_star that starts in Giant, Collapse or Bounce leaves the      *)
(* particle array and particle_count as they were, unless it is the        *)
(* Bounce -> Explosion call (which spawns); a call that starts in          *)
(* Explosion or Nebula moves every particle with life > 0 by velocity*dt,  *)
(* takes dt off its life and keeps its velocity.  So a particle alive at   *)
(* the restart is alive and at the same place in every later Giant,        *)
(* Collapse and Bounce state of that cycle.                                *)
C15_ParticlesAdvanceOnlyInExplosionNebula ==
    [][/\ (/\ s.state \in {GIANT, COLLAPSE, BOUNCE}
           /\ ~(s.state = BOUNCE /\ s'.state = EXPLOSION)) =>
              /\ s'.particles = s.particles
              /\ s'.particle_count = s.particle_count
       /\ s.state \in {EXPLOSION, NEBULA} =>
              /\ s'.particle_count = s.particle_count
              /\ \A i \in 1 .. s.particle_count :
                    s.particles[i].life > 0 =>
                       /\ s'.particles[i].x =
                             s.particles[i].x + MulFx(s.particles[i].vx, dt')
                       /\ s'.particles[i].y =
                             s.particles[i].y + MulFx(s.particles[i].vy, dt')
                       /\ s'.particles[i].life = s.particles[i].life - dt'
                       /\ s'.particles[i].vx = s.particles[i].vx
                       /\ s'.particles[i].vy = s.particles[i].vy]_vars

(* A particle spawned in the cycle before is still alive in Bounce, after  *)
(* calls with dt > 0 in Giant, Collapse and Bounce.                        *)
C15_Witness ==
    /\ s.state = BOUNCE
    /\ s.time > 0
    /\ dt > 0
    /\ \E i \in 1 .. s.particle_count : s.particles[i].life > 0


(* C16: velocity accumulates during Collapse only.  A call of update_star  *)
(* that starts in Collapse adds 40*dt to velocity; the Giant -> Collapse   *)
(* call sets it to 0; every call that starts in Bounce, Explosion or       *)
(* Nebula and every Giant call that stays in Giant leaves it unchanged.    *)
C16_VelocityOnlyInCollapse ==
    [][/\ s.state = COLLAPSE => s'.velocity = s.velocity + 40 * dt'
       /\ (s.state = GIANT /\ s'.state = COLLAPSE) => s'.velocity = 0
       /\ (s.state = GIANT /\ s'.state = GIANT) => s'.velocity = s.velocity
       /\ s.state \in {BOUNCE, EXPLOSION, NEBULA} =>
             s'.velocity = s.velocity]_vars

(* In the Giant stage of a later cycle, after a call with dt > 0 that      *)
(* stayed in Giant, velocity still has the value Collapse left in it.      *)
C16_Witness ==
    /\ s.state = GIANT
    /\ s.time > 0
    /\ dt > 0
    /\ s.velocity > 0


(* C17, as stated: once radius is negative, no call of update_star with    *)
(* 0 < dt <= 1 brings it back to a positive value.                         *)
C17_NoSelfRecovery ==
    [][(s.radius < 0 /\ dt' > 0 /\ dt' <= SCALE) => s'.radius <= 0]_vars

(* C17, amended: radius is negative only in Bounce, Explosion and Nebula.  *)
(* While it is negative, a Bounce call adds 25*dt to it (so it can turn    *)
(* positive there), an Explosion or Nebula call that does not restart      *)
(* leaves it as it is, and the Nebula -> Giant call sets it to 9: the      *)
(* restart always recovers it.                                             *)
C17_NegativeRadiusRecovers ==
    /\ [](s.radius < 0 => s.state \in {BOUNCE, EXPLOSION, NEBULA})
    /\ [][s.radius < 0 =>
            /\ s.state = BOUNCE => s'.radius = s.radius + 25 * dt'
            /\ (s.state \in {EXPLOSION, NEBULA} /\ s'.state # GIANT) =>
                  s'.radius = s.radius
            /\ s'.state = GIANT => s'.radius = Fx(9)]_vars

(* A negative radius, produced by a Collapse call with dt <= 1, has lasted *)
(* into Nebula.                                                            *)
C17_Witness ==
    /\ s.state = NEBULA
    /\ s.radius < 0
    /\ s.velocity <= 40 * SCALE


(* C18: a call of update_star makes at most one stage change and applies   *)
(* only the update of the stage it started in, for every dt.  The stage    *)
(* after the call is the same or the next one.  A call that starts in      *)
(* Giant sets radius from the sine and changes velocity only to 0; one     *)
(* that starts in Collapse takes velocity*dt off radius once and adds no   *)
(* 25*dt; one that starts in Bounce adds 25*dt to radius, and if it moves  *)
(* to Explosion it calls spawn_particles and nothing else, leaving         *)
(* explosion_radius at 3 and every particle as spawned; one that starts    *)
(* in Explosion adds 30*dt to explosion_radius and one that starts in      *)
(* Nebula 6*dt, the restart leaving radius at 9.                           *)
C18_OneBranchPerCall ==
    [][/\ s'.state \in {s.state, (s.state + 1) % 5}
       /\ s'.time \in {s.time + dt', 0}
       /\ s.state = GIANT =>
             /\ s'.radius = Fx(9) + (Sin((s.time + dt') * 3) * 3) \div 2
             /\ s'.velocity \in {s.velocity, 0}
             /\ s'.core_radius = s.core_radius
       /\ s.state = COLLAPSE =>
             /\ s'.radius = s.radius - MulFx(s'.velocity, dt')
             /\ s'.explosion_radius = s.explosion_radius
             /\ calls' = <<>>
       /\ s.state = BOUNCE =>
             /\ s'.radius = s.radius + 25 * dt'
             /\ s'.state = BOUNCE =>
                   (calls' = <<>> /\
                    s'.explosion_radius = s.explosion_radius)
             /\ s'.state = EXPLOSION =>
                   /\ calls' = <<"spawn_particles">>
                   /\ s'.explosion_radius = Fx(3)
                   /\ AllFresh(s')
       /\ s.state = EXPLOSION =>
             /\ s'.explosion_radius = s.explosion_radius + 30 * dt'
             /\ s'.radius = s.radius
             /\ calls' = <<"update_particles">>
       /\ s.state = NEBULA =>
             /\ s'.explosion_radius = s.explosion_radius + 6 * dt'
             /\ s'.radius = IF s'.state = GIANT THEN Fx(9) ELSE s.radius
             /\ s'.velocity = s.velocity
             /\ calls' = <<"update_particles">>]_vars

(* A Bounce call with dt = 2 s has moved to Explosion: time is more than   *)
(* twice the 0.8 s threshold over, yet explosion_radius is 3, not 63, and  *)
(* the particles are at the centre.                                        *)
C18_Witness ==
    /\ s.state = EXPLOSION
    /\ dt = 2 * SCALE
    /\ calls = <<"spawn_particles">>
    /\ s.explosion_radius = Fx(3)
    /\ AllFresh(s)


(* C19: the stage/threshold invariant of main's run with dt = 1/30.  In    *)
(* every state from the first update_star call on (and in the initial      *)
(* one): Giant has time <= 5 and 7.5 <= radius <= 10.5; Collapse has       *)
(* radius >= 3; Bounce has time <= 0.8; Explosion has                      *)
(* 3 <= explosion_radius <= 32; Nebula has 32 < explosion_radius <= 42;    *)
(* and radius > 0 throughout.                                              *)
C19_StageThresholds ==
    /\ dt = SCALE \div 30
    /\ s.state = GIANT =>
          /\ s.time <= Fx(5)
          /\ s.radius >= (15 * SCALE) \div 2
          /\ s.radius <= (21 * SCALE) \div 2
    /\ s.state = COLLAPSE => s.radius >= Fx(3)
    /\ s.state = BOUNCE => s.time <= (8 * SCALE) \div 10
    /\ s.state = EXPLOSION =>
          (s.explosion_radius >= Fx(3) /\ s.explosion_radius <= Fx(32))
    /\ s.state = NEBULA =>
          (s.explosion_radius > Fx(32) /\ s.explosion_radius <= Fx(42))
    /\ s.radius > 0

(* draw_star is about to be given a Nebula whose explosion_radius is       *)
(* exactly 42, the last value before the restart.                          *)
C19_Witness ==
    /\ pc = "draw"
    /\ dt = SCALE \div 30
    /\ s.state = NEBULA
    /\ s.explosion_radius = Fx(42)
    /\ s.radius > 0

=============================================================================
